---------------------------- MODULE Spec2Model ----------------------------
(***************************************************************************)
(* Model of ircd/list.c (ircu2): the Client / Connection / SLink free      *)
(* lists, make_client / free_client / free_connection, make_server, the    *)
(* GlobalClientList and the teardown sequence remove_client_from_list.      *)
(*                                                                         *)
(* Every C function is an operator from a program state record s to the    *)
(* program state after the call; a failed assert() stops the function at   *)
(* that statement and records the assertion in s.abort (the process has    *)
(* aborted, nothing runs afterwards).  Pointers are cell numbers, NULL is  *)
(* 0.  Timestamps, cli_username and cli_unreg, which make_client also      *)
(* initialises, are not part of the state: nothing in list.c reads them.   *)
(***************************************************************************)
EXTENDS Integers, Sequences, FiniteSets, TLC

(***************************************************************************)
(* Bounds of the model.                                                    *)
(***************************************************************************)
\* number of cells init_list pre-allocates (the build-time MAXCONNECTIONS)
MAXCONNECTIONS == 1
\* SLink cells MyMalloc can hand out
MaxLinks == 2
\* length of the whowas ring
WhowasLen == 1
\* messages queued on the link over a run, and the bytes of the longest
MaxMsgs == 3
MaxMsgLen == 2
\* ConfItem slots of the policy snapshot, and max_links of the connection class
MaxConfs == 2
MaxClassLinks == 2
\* calls of sendcmdto_common_channels over a run (its marker counts them)
MaxEpoch == 2
\* DLink nodes the heap can hold
MaxDLinks == 3

(***************************************************************************)
(* Program constants.                                                      *)
(***************************************************************************)
NULL == 0
CLIENT_MAGIC == 1285587590
CONNECTION_MAGIC == 318330355
FREEFLAG_SOCKET == 1
FREEFLAG_TIMER == 2
UNREGISTERED_HANDLER == 0
STAT_ME == 4
STAT_SERVER == 64
STAT_USER == 128
\* a word of uninitialised heap memory that happens not to be zero
JUNK == 85

\* MyMalloc can hand out one cell more once a free list is exhausted
MaxClients == MAXCONNECTIONS + 1
MaxConns == MAXCONNECTIONS + 1
\* the static records `me' and its Connection, which never come from a pool
ME == MaxClients + 1
ME_CON == MaxConns + 1

ClientCells == 1..MaxClients
ConnCells == 1..MaxConns
LinkCells == 1..MaxLinks
Fds == 3..(2 + MaxConns)

VARIABLES
  cli,                  \* struct Client, by cell
  con,                  \* struct Connection, by cell
  slink,                \* struct SLink, by cell
  clientFreeList, connectionFreeList, slinkFreeList,
  clientAllocCount, connectionAllocCount, slinkAllocCount,
  GlobalClientList,
  servLive,             \* clients whose struct Server is allocated
  whowas,               \* whowas history, oldest first
  openFds,              \* descriptors open in the process
  ebadf,                \* close() was called on a descriptor that is not open
  abort,                \* "none", or the assert() that failed
  started,              \* init_list has run
  pc, cur               \* position inside remove_client_from_list, its cptr

\* the output side of one link (struct MsgQ of its Connection)
VARIABLES
  prioQ,                \* priority queue, head first
  normQ,                \* normal queue, head first
  wire,                 \* messages written to the socket in full, in order
  msgCount              \* messages queued so far

listVars == <<cli, con, slink, clientFreeList, connectionFreeList, slinkFreeList,
              clientAllocCount, connectionAllocCount, slinkAllocCount,
              GlobalClientList, servLive, whowas, openFds, ebadf, abort,
              started, pc, cur>>
msgqVars == <<prioQ, normQ, wire, msgCount>>

\* the policy snapshot (GlobalConfList) and the attachments of local clients
VARIABLES
  conf,                 \* ConfItem slot -> [status, clients]
  attached,             \* <<client, ConfItem>> pairs: the clients' cli_confs lists
  acr                   \* result of the last attach_conf

confVars == <<conf, attached, acr>>

\* channels, their members and what the last send call queued
VARIABLES
  member,               \* <<user, channel>> -> "no", "member" or "op"
  deaf,                 \* the local users that are +d
  bursting,             \* <<server link, channel>> pairs in burst
  sentalong,            \* local user -> marker of the last call that reached it
  sentalong_marker,     \* marker of sendcmdto_common_channels, one per call
  sent,                 \* recipient -> copies queued by the last send call
  last                  \* the last send call and its arguments

chanVars == <<member, deaf, bursting, sentalong, sentalong_marker, sent, last>>

\* one doubly linked list of DLink nodes
VARIABLES
  dlink,                \* heap cell -> [value, prev, next]
  dlinkHead,            \* *lpp, the head of the list
  dlinkLive             \* cells MyMalloc has handed out and MyFree not taken back

dlinkVars == <<dlink, dlinkHead, dlinkLive>>

vars == <<listVars, msgqVars, confVars, chanVars, dlinkVars>>

\* the program state as one record, the argument of every function below
State ==
  [cli |-> cli, con |-> con, slink |-> slink,
   clientFreeList |-> clientFreeList,
   connectionFreeList |-> connectionFreeList,
   slinkFreeList |-> slinkFreeList,
   clientAllocCount |-> clientAllocCount,
   connectionAllocCount |-> connectionAllocCount,
   slinkAllocCount |-> slinkAllocCount,
   GlobalClientList |-> GlobalClientList,
   servLive |-> servLive, whowas |-> whowas,
   openFds |-> openFds, ebadf |-> ebadf, abort |-> abort]

Becomes(s) ==
  /\ cli' = s.cli
  /\ con' = s.con
  /\ slink' = s.slink
  /\ clientFreeList' = s.clientFreeList
  /\ connectionFreeList' = s.connectionFreeList
  /\ slinkFreeList' = s.slinkFreeList
  /\ clientAllocCount' = s.clientAllocCount
  /\ connectionAllocCount' = s.connectionAllocCount
  /\ slinkAllocCount' = s.slinkAllocCount
  /\ GlobalClientList' = s.GlobalClientList
  /\ servLive' = s.servLive
  /\ whowas' = s.whowas
  /\ openFds' = s.openFds
  /\ ebadf' = s.ebadf
  /\ abort' = s.abort
  /\ UNCHANGED <<msgqVars, confVars, chanVars, dlinkVars>>

(***************************************************************************)
(* Memory images.                                                          *)
(***************************************************************************)
\* memset(cptr, 0, sizeof(struct Client))
ZeroClient ==
  [magic |-> 0, next |-> NULL, prev |-> NULL, hnext |-> NULL,
   connect |-> NULL, status |-> 0, user |-> 0, serv |-> 0]

\* what MyMalloc may also return: memory that was never written
JunkClient ==
  [magic |-> JUNK, next |-> JUNK, prev |-> JUNK, hnext |-> JUNK,
   connect |-> JUNK, status |-> JUNK, user |-> JUNK, serv |-> JUNK]

\* memset(con, 0, sizeof(struct Connection)); timer_init(&con_proc(con))
ZeroConnection ==
  [magic |-> 0, next |-> NULL, fd |-> 0, freeflag |-> 0, client |-> NULL,
   handler |-> 0, active |-> FALSE, onqueue |-> FALSE,
   dns_reply |-> 0, listener |-> 0, sendQ |-> 0, recvQ |-> 0,
   sockdel |-> FALSE, timerdel |-> FALSE]

JunkConnection ==
  [magic |-> JUNK, next |-> JUNK, fd |-> JUNK, freeflag |-> JUNK,
   client |-> JUNK, handler |-> JUNK, active |-> FALSE, onqueue |-> FALSE,
   dns_reply |-> JUNK, listener |-> JUNK, sendQ |-> JUNK, recvQ |-> JUNK,
   sockdel |-> FALSE, timerdel |-> FALSE]

\* MyMalloc does not initialise: fresh pages read as zero, recycled ones do not
HeapImages == {[client |-> ZeroClient, connection |-> ZeroConnection],
               [client |-> JunkClient, connection |-> JunkConnection]}
LinkImages == {NULL, JUNK}

(***************************************************************************)
(* Helpers.                                                                *)
(***************************************************************************)
Fail(s, what) == [s EXCEPT !.abort = what]

HasFlag(flags, bit) == (flags \div bit) % 2 = 1

\* the cells reached from head by following nxt, in order
RECURSIVE Chain(_, _, _, _)
Chain(nxt, cells, head, fuel) ==
  IF head \notin cells \/ fuel = 0 THEN <<>>
  ELSE <<head>> \o Chain(nxt, cells, nxt[head], fuel - 1)

Range(q) == {q[i] : i \in 1..Len(q)}

ClientFreeSeq(s) ==
  Chain([c \in ClientCells |-> s.cli[c].next], ClientCells,
        s.clientFreeList, MaxClients + 1)
ConnFreeSeq(s) ==
  Chain([k \in ConnCells |-> s.con[k].next], ConnCells,
        s.connectionFreeList, MaxConns + 1)
LinkFreeSeq(s) ==
  Chain([l \in LinkCells |-> s.slink[l].next], LinkCells,
        s.slinkFreeList, MaxLinks + 1)
ClientListSeq(s) ==
  Chain([c \in ClientCells \cup {ME} |-> s.cli[c].next], ClientCells \cup {ME},
        s.GlobalClientList, MaxClients + 2)

cli_verify(s, c) == s.cli[c].magic = CLIENT_MAGIC
con_verify(s, k) == k \in ConnCells \cup {ME_CON} /\ s.con[k].magic = CONNECTION_MAGIC
\* cli_from(cli) is con_client(cli_connect(cli))
cli_from(s, c) == s.con[s.cli[c].connect].client
IsUser(s, c) == s.cli[c].status = STAT_USER
IsMe(s, c) == s.cli[c].status = STAT_ME

(***************************************************************************)
(* init_list                                                               *)
(***************************************************************************)
\* one round of the loop: MyMalloc a Client and a Connection, push both
init_list_round(s, cimg, kimg) ==
  LET c == s.clientAllocCount + 1
      k == s.connectionAllocCount + 1
  IN [s EXCEPT !.cli[c] = [cimg EXCEPT !.next = s.clientFreeList],
               !.clientFreeList = c,
               !.clientAllocCount = c,
               !.con[k] = [kimg EXCEPT !.next = s.connectionFreeList],
               !.connectionFreeList = k,
               !.connectionAllocCount = k]

RECURSIVE init_list_loop(_, _, _, _)
init_list_loop(s, i, cimg, kimg) ==
  IF i >= MAXCONNECTIONS THEN s
  ELSE init_list_loop(init_list_round(s, cimg, kimg), i + 1, cimg, kimg)

\* cimg, kimg: what the memory MyMalloc returns holds
init_list_short(s, cimg, kimg) == init_list_loop(s, 1, cimg, kimg)

init_list(s, cimg, kimg) == init_list_loop(s, 0, cimg, kimg)

(***************************************************************************)
(* alloc_client / dealloc_client                                           *)
(***************************************************************************)
\* the cell alloc_client returns
alloc_client_ret(s) ==
  IF s.clientFreeList = NULL THEN s.clientAllocCount + 1 ELSE s.clientFreeList

alloc_client_nomemset(s) ==
  LET cptr == alloc_client_ret(s)
  IN IF s.clientFreeList = NULL
     THEN [s EXCEPT !.clientAllocCount = @ + 1, !.cli[cptr] = JunkClient]
     ELSE [s EXCEPT !.clientFreeList = s.cli[cptr].next]

alloc_client_nopop(s) ==
  LET cptr == alloc_client_ret(s)
  IN IF s.clientFreeList = NULL
     THEN [s EXCEPT !.clientAllocCount = @ + 1, !.cli[cptr] = ZeroClient]
     ELSE [s EXCEPT !.cli[cptr] = ZeroClient]

alloc_client(s) ==
  LET cptr == alloc_client_ret(s)
  IN IF s.clientFreeList = NULL
     THEN [s EXCEPT !.clientAllocCount = @ + 1, !.cli[cptr] = ZeroClient]
     ELSE [s EXCEPT !.clientFreeList = s.cli[cptr].next,
                    !.cli[cptr] = ZeroClient]

dealloc_client_keepmagic(s, cptr) ==
  IF ~cli_verify(s, cptr) THEN Fail(s, "dealloc_client: cli_verify(cptr)")
  ELSE IF s.cli[cptr].connect # NULL
  THEN Fail(s, "dealloc_client: 0 == cli_connect(cptr)")
  ELSE [s EXCEPT !.cli[cptr].next = s.clientFreeList,
                 !.clientFreeList = cptr]

dealloc_client(s, cptr) ==
  IF ~cli_verify(s, cptr) THEN Fail(s, "dealloc_client: cli_verify(cptr)")
  ELSE IF s.cli[cptr].connect # NULL
  THEN Fail(s, "dealloc_client: 0 == cli_connect(cptr)")
  ELSE [s EXCEPT !.cli[cptr].next = s.clientFreeList,
                 !.clientFreeList = cptr,
                 !.cli[cptr].magic = 0]

(***************************************************************************)
(* alloc_connection / dealloc_connection                                   *)
(***************************************************************************)
alloc_connection_ret(s) ==
  IF s.connectionFreeList = NULL THEN s.connectionAllocCount + 1
  ELSE s.connectionFreeList

alloc_connection(s) ==
  LET k == alloc_connection_ret(s)
  IN IF s.connectionFreeList = NULL
     THEN [s EXCEPT !.connectionAllocCount = @ + 1, !.con[k] = ZeroConnection]
     ELSE [s EXCEPT !.connectionFreeList = s.con[k].next,
                    !.con[k] = ZeroConnection]

\* close(fd)
close(s, fd) ==
  IF fd \in s.openFds THEN [s EXCEPT !.openFds = @ \ {fd}]
  ELSE [s EXCEPT !.ebadf = TRUE]

dealloc_connection_body(s, k) ==
  LET s1 == IF s.con[k].dns_reply # 0 THEN [s EXCEPT !.con[k].dns_reply = 0]
            ELSE s
      s2 == IF -1 < s1.con[k].fd THEN close(s1, s1.con[k].fd) ELSE s1
  IN [s2 EXCEPT !.con[k].sendQ = 0,
                !.con[k].recvQ = 0,
                !.con[k].next = s.connectionFreeList,
                !.connectionFreeList = k,
                !.con[k].magic = 0]

dealloc_connection_notimercheck(s, k) ==
  IF ~con_verify(s, k) THEN Fail(s, "dealloc_connection: con_verify(con)")
  ELSE dealloc_connection_body(s, k)

dealloc_connection(s, k) ==
  IF ~con_verify(s, k) THEN Fail(s, "dealloc_connection: con_verify(con)")
  ELSE IF s.con[k].active
  THEN Fail(s, "dealloc_connection: !t_active(&(con_proc(con)))")
  ELSE IF s.con[k].onqueue
  THEN Fail(s, "dealloc_connection: !t_onqueue(&(con_proc(con)))")
  ELSE dealloc_connection_body(s, k)

(***************************************************************************)
(* ircd_events.c, seen from list.c: socket_del and timer_del queue the     *)
(* destruction of the connection's socket and of its processing timer.     *)
(***************************************************************************)
socket_del(s, k) == [s EXCEPT !.con[k].sockdel = TRUE]
timer_del(s, k) == [s EXCEPT !.con[k].timerdel = TRUE]

(***************************************************************************)
(* make_client                                                             *)
(***************************************************************************)
\* make_client_local with line 243, con_client(con) = cptr, left out
make_client_local_noowner(s, cptr) ==
  LET k == alloc_connection_ret(s)
      a == alloc_connection(s)
  IN IF a.con[k].magic # 0 THEN Fail(a, "make_client: !con_magic(con)")
     ELSE [a EXCEPT !.con[k].magic = CONNECTION_MAGIC,
                    !.con[k].fd = -1,
                    !.con[k].freeflag = 0,
                    !.con[k].handler = UNREGISTERED_HANDLER,
                    !.cli[cptr].connect = k]

make_client_local(s, cptr) ==
  LET k == alloc_connection_ret(s)
      a == alloc_connection(s)
  IN IF a.con[k].magic # 0 THEN Fail(a, "make_client: !con_magic(con)")
     ELSE [a EXCEPT !.con[k].magic = CONNECTION_MAGIC,
                    !.con[k].fd = -1,
                    !.con[k].freeflag = 0,
                    !.con[k].handler = UNREGISTERED_HANDLER,
                    !.con[k].client = cptr,
                    !.cli[cptr].connect = k]

\* make_client_remote allocating a Connection of its own
make_client_remote_alloc(s, cptr, from) == make_client_local(s, cptr)

make_client_remote(s, cptr, from) ==
  [s EXCEPT !.cli[cptr].connect = s.cli[from].connect]

make_client(s, from, status) ==
  IF from # NULL /\ ~cli_verify(s, from)
  THEN Fail(s, "make_client: !from || cli_verify(from)")
  ELSE
    LET cptr == alloc_client_ret(s)
        s1 == alloc_client(s)
    IN IF s1.cli[cptr].magic # 0 THEN Fail(s1, "make_client: !cli_magic(cptr)")
       ELSE IF from # NULL /\ s1.cli[from].connect = NULL
       THEN Fail(s1, "make_client: 0 == from || 0 != cli_connect(from)")
       ELSE
         LET s2 == IF from = NULL THEN make_client_local(s1, cptr)
                   ELSE make_client_remote(s1, cptr, from)
         IN IF s2.abort # "none" THEN s2
            ELSE IF ~con_verify(s2, s2.cli[cptr].connect)
            THEN Fail(s2, "make_client: con_verify(cli_connect(cptr))")
            ELSE [s2 EXCEPT !.cli[cptr].magic = CLIENT_MAGIC,
                            !.cli[cptr].status = status,
                            !.cli[cptr].hnext = cptr]

(***************************************************************************)
(* free_connection / free_client                                           *)
(***************************************************************************)
free_connection_noverify(s, k) ==
  IF k = NULL THEN s
  ELSE IF s.con[k].client # NULL
  THEN Fail(s, "free_connection: 0 == con_client(con)")
  ELSE dealloc_connection_body(s, k)

free_connection(s, k) ==
  IF k = NULL THEN s
  ELSE IF ~con_verify(s, k) THEN Fail(s, "free_connection: con_verify(con)")
  ELSE IF s.con[k].client # NULL
  THEN Fail(s, "free_connection: 0 == con_client(con)")
  ELSE dealloc_connection(s, k)

\* free_client_local with line 306, cli_from(cptr) = 0, left out
free_client_keepfrom(s, cptr) ==
  LET k == s.cli[cptr].connect
      a == s
  IN IF a.con[k].freeflag = 0 /\ ~a.con[k].active
     THEN dealloc_connection(a, k)
     ELSE
       LET b == IF -1 < a.con[k].fd /\ HasFlag(a.con[k].freeflag, FREEFLAG_SOCKET)
                THEN socket_del(a, k) ELSE a
       IN IF HasFlag(b.con[k].freeflag, FREEFLAG_TIMER) THEN timer_del(b, k)
          ELSE b

\* free_client_local that never queues the socket deletion
free_client_local_nosocketdel(s, cptr) ==
  LET k == s.cli[cptr].connect
      a == [s EXCEPT !.con[k].client = NULL]
  IN IF a.con[k].freeflag = 0 /\ ~a.con[k].active
     THEN dealloc_connection(a, k)
     ELSE IF HasFlag(a.con[k].freeflag, FREEFLAG_TIMER) THEN timer_del(a, k)
          ELSE a

\* free_client_local queueing the timer deletion whatever the freeflag
free_client_local_timeralways(s, cptr) ==
  LET k == s.cli[cptr].connect
      a == [s EXCEPT !.con[k].client = NULL]
  IN IF a.con[k].freeflag = 0 /\ ~a.con[k].active
     THEN dealloc_connection(a, k)
     ELSE
       LET b == IF -1 < a.con[k].fd /\ HasFlag(a.con[k].freeflag, FREEFLAG_SOCKET)
                THEN socket_del(a, k) ELSE a
       IN timer_del(b, k)

\* the branch of free_client taken when cli_from(cptr) == cptr
free_client_local(s, cptr) ==
  LET k == s.cli[cptr].connect
      a == [s EXCEPT !.con[k].client = NULL]
  IN IF a.con[k].freeflag = 0 /\ ~a.con[k].active
     THEN dealloc_connection(a, k)
     ELSE
       LET b == IF -1 < a.con[k].fd /\ HasFlag(a.con[k].freeflag, FREEFLAG_SOCKET)
                THEN socket_del(a, k) ELSE a
       IN IF HasFlag(b.con[k].freeflag, FREEFLAG_TIMER) THEN timer_del(b, k)
          ELSE b

\* free_client without the assertions on cli_hnext, cli_next and cli_prev
free_client_nolistcheck(s, cptr) ==
  IF cptr = NULL THEN s
  ELSE IF ~cli_verify(s, cptr) THEN Fail(s, "free_client: cli_verify(cptr)")
  ELSE
    LET s1 == IF cli_from(s, cptr) = cptr THEN free_client_local(s, cptr)
              ELSE s
    IN IF s1.abort # "none" THEN s1
       ELSE dealloc_client([s1 EXCEPT !.cli[cptr].connect = NULL], cptr)

\* free_client taking the local branch for every client
free_client_alwayslocal(s, cptr) ==
  IF cptr = NULL THEN s
  ELSE IF ~cli_verify(s, cptr) THEN Fail(s, "free_client: cli_verify(cptr)")
  ELSE IF s.cli[cptr].hnext # cptr
  THEN Fail(s, "free_client: cli_hnext(cptr) == cptr")
  ELSE IF s.cli[cptr].next # NULL
  THEN Fail(s, "free_client: cli_next(cptr) == 0")
  ELSE IF s.cli[cptr].prev # NULL
  THEN Fail(s, "free_client: cli_prev(cptr) == 0")
  ELSE
    LET s1 == free_client_local(s, cptr)
    IN IF s1.abort # "none" THEN s1
       ELSE dealloc_client([s1 EXCEPT !.cli[cptr].connect = NULL], cptr)

free_client(s, cptr) ==
  IF cptr = NULL THEN s
  ELSE IF ~cli_verify(s, cptr) THEN Fail(s, "free_client: cli_verify(cptr)")
  ELSE IF s.cli[cptr].hnext # cptr
  THEN Fail(s, "free_client: cli_hnext(cptr) == cptr")
  ELSE IF s.cli[cptr].next # NULL
  THEN Fail(s, "free_client: cli_next(cptr) == 0")
  ELSE IF s.cli[cptr].prev # NULL
  THEN Fail(s, "free_client: cli_prev(cptr) == 0")
  ELSE
    LET s1 == IF cli_from(s, cptr) = cptr THEN free_client_local(s, cptr)
              ELSE s
    IN IF s1.abort # "none" THEN s1
       ELSE dealloc_client([s1 EXCEPT !.cli[cptr].connect = NULL], cptr)

(***************************************************************************)
(* make_server; make_user (s_user.c) as list.c relies on it                *)
(***************************************************************************)
make_server(s, cptr) ==
  IF ~cli_verify(s, cptr) THEN Fail(s, "make_server: cli_verify(cptr)")
  ELSE IF s.cli[cptr].serv = 0
  THEN [s EXCEPT !.cli[cptr].serv = cptr, !.servLive = @ \cup {cptr}]
  ELSE s

make_user(s, cptr) ==
  IF s.cli[cptr].user = 0 THEN [s EXCEPT !.cli[cptr].user = 1] ELSE s

(***************************************************************************)
(* add_client_to_list                                                      *)
(***************************************************************************)
\* add_client_to_list with lines 423-424, the back link of the old head, left out
add_client_to_list_noback(s, cptr) ==
  IF ~cli_verify(s, cptr) THEN Fail(s, "add_client_to_list: cli_verify(cptr)")
  ELSE IF s.cli[cptr].next # NULL
  THEN Fail(s, "add_client_to_list: cli_next(cptr) == 0")
  ELSE IF s.cli[cptr].prev # NULL
  THEN Fail(s, "add_client_to_list: cli_prev(cptr) == 0")
  ELSE [s EXCEPT !.cli[cptr].prev = NULL,
                 !.cli[cptr].next = s.GlobalClientList,
                 !.GlobalClientList = cptr]

add_client_to_list(s, cptr) ==
  IF ~cli_verify(s, cptr) THEN Fail(s, "add_client_to_list: cli_verify(cptr)")
  ELSE IF s.cli[cptr].next # NULL
  THEN Fail(s, "add_client_to_list: cli_next(cptr) == 0")
  ELSE IF s.cli[cptr].prev # NULL
  THEN Fail(s, "add_client_to_list: cli_prev(cptr) == 0")
  ELSE
    LET a == [s EXCEPT !.cli[cptr].prev = NULL,
                       !.cli[cptr].next = s.GlobalClientList,
                       !.GlobalClientList = cptr]
    IN IF a.cli[cptr].next # NULL
       THEN [a EXCEPT !.cli[a.cli[cptr].next].prev = cptr]
       ELSE a

(***************************************************************************)
(* remove_client_from_list, statement group by statement group             *)
(***************************************************************************)
\* lines 359-379: the assertions, then the unlink from GlobalClientList
rcl_unlink_skip(s, cptr) == s

\* rcl_unlink with line 363, assert(!IsMe(cptr)), left out
rcl_unlink_nome(s, cptr) ==
  LET nx == s.cli[cptr].next
      pv == s.cli[cptr].prev
  IN
  IF ~cli_verify(s, cptr)
  THEN Fail(s, "remove_client_from_list: cli_verify(cptr)")
  ELSE IF ~con_verify(s, s.cli[cptr].connect)
  THEN Fail(s, "remove_client_from_list: con_verify(cli_connect(cptr))")
  ELSE
    LET a == IF nx # NULL
             THEN LET b == IF pv # NULL THEN [s EXCEPT !.cli[pv].next = nx]
                           ELSE [s EXCEPT !.GlobalClientList = nx,
                                          !.cli[nx].prev = NULL]
                  IN [b EXCEPT !.cli[nx].prev = pv]
             ELSE s
    IN [a EXCEPT !.cli[cptr].next = NULL, !.cli[cptr].prev = NULL]

rcl_unlink(s, cptr) ==
  LET nx == s.cli[cptr].next
      pv == s.cli[cptr].prev
  IN
  IF ~cli_verify(s, cptr)
  THEN Fail(s, "remove_client_from_list: cli_verify(cptr)")
  ELSE IF ~con_verify(s, s.cli[cptr].connect)
  THEN Fail(s, "remove_client_from_list: con_verify(cli_connect(cptr))")
  ELSE IF pv # NULL /\ ~cli_verify(s, pv)
  THEN Fail(s, "remove_client_from_list: !cli_prev(cptr) || cli_verify(cli_prev(cptr))")
  ELSE IF nx # NULL /\ ~cli_verify(s, nx)
  THEN Fail(s, "remove_client_from_list: !cli_next(cptr) || cli_verify(cli_next(cptr))")
  ELSE IF IsMe(s, cptr) THEN Fail(s, "remove_client_from_list: !IsMe(cptr)")
  ELSE
    LET a == IF nx # NULL
             THEN LET b == IF pv # NULL THEN [s EXCEPT !.cli[pv].next = nx]
                           ELSE [s EXCEPT !.GlobalClientList = nx,
                                          !.cli[nx].prev = NULL]
                  IN [b EXCEPT !.cli[nx].prev = pv]
             ELSE s
    IN [a EXCEPT !.cli[cptr].next = NULL, !.cli[cptr].prev = NULL]

\* whowas.c: add_history(cptr, 0) appends to the bounded ring, evicting
\* the oldest entry; off_history(cptr) only clears online references
add_history(s, cptr) ==
  [s EXCEPT !.whowas = IF Len(@) >= WhowasLen THEN Append(Tail(@), cptr)
                       ELSE Append(@, cptr)]

\* lines 381-384 with the IsUser test left out
rcl_history_anystatus(s, cptr) ==
  IF s.cli[cptr].user # 0 THEN add_history(s, cptr) ELSE s

\* lines 381-384
rcl_history(s, cptr) ==
  IF IsUser(s, cptr) /\ s.cli[cptr].user # 0 THEN add_history(s, cptr) ELSE s

\* lines 385-388
rcl_user(s, cptr) ==
  IF s.cli[cptr].user # 0 THEN [s EXCEPT !.cli[cptr].user = 0] ELSE s

\* lines 390-402: MyFree(cli_serv(cptr)); the pointer itself is left behind
rcl_serv(s, cptr) ==
  IF s.cli[cptr].serv # 0 THEN [s EXCEPT !.servLive = @ \ {s.cli[cptr].serv}]
  ELSE s

\* the position after each statement group
rcl_after_wrong(p) ==
  CASE p = "idle" -> "history"
    [] p = "history" -> "free"
    [] p = "user" -> "serv"
    [] p = "serv" -> "idle"
    [] p = "free" -> "user"

rcl_after(p) ==
  CASE p = "idle" -> "history"
    [] p = "history" -> "user"
    [] p = "user" -> "serv"
    [] p = "serv" -> "free"
    [] p = "free" -> "idle"

(***************************************************************************)
(* hash.c, seen from list.c: a client in the hash table has its cli_hnext  *)
(* on the chain of its bucket (here the end of the chain); a client out    *)
(* of the table has cli_hnext pointing to itself, as make_client leaves it. *)
(***************************************************************************)
hAddClient(s, cptr) == [s EXCEPT !.cli[cptr].hnext = NULL]
hRemClient(s, cptr) == [s EXCEPT !.cli[cptr].hnext = cptr]

(***************************************************************************)
(* make_link / free_link                                                   *)
(***************************************************************************)
make_link_ret(s) ==
  IF s.slinkFreeList # NULL THEN s.slinkFreeList ELSE s.slinkAllocCount + 1

make_link(s, img) ==
  LET lp == make_link_ret(s)
  IN IF s.slinkFreeList # NULL
     THEN [s EXCEPT !.slinkFreeList = s.slink[lp].next]
     ELSE [s EXCEPT !.slink[lp] = [next |-> img], !.slinkAllocCount = @ + 1]

free_link_second(s, lp) ==
  IF lp = NULL THEN s
  ELSE IF s.slinkFreeList = NULL
  THEN [s EXCEPT !.slink[lp].next = NULL, !.slinkFreeList = lp]
  ELSE [s EXCEPT !.slink[lp].next = s.slink[s.slinkFreeList].next,
                 !.slink[s.slinkFreeList].next = lp]

free_link(s, lp) ==
  IF lp # NULL
  THEN [s EXCEPT !.slink[lp].next = s.slinkFreeList, !.slinkFreeList = lp]
  ELSE s

(***************************************************************************)
(* The callers in s_bsd.c and ircd_events.c that drive a Connection.       *)
(***************************************************************************)
\* the descriptor accept() returns for the socket of connection k
AcceptedFd(k) == 2 + k

\* add_connection: the accepted socket is registered with the event engine
add_connection(s, k) ==
  LET fd == AcceptedFd(k)
  IN [s EXCEPT !.openFds = @ \cup {fd},
               !.con[k].fd = fd,
               !.con[k].freeflag = @ + FREEFLAG_SOCKET,
               !.con[k].listener = 1,
               !.con[k].dns_reply = 1]

\* timer_add(&con_proc(con), ...)
timer_add(s, k) ==
  [s EXCEPT !.con[k].freeflag = @ + FREEFLAG_TIMER,
            !.con[k].active = TRUE,
            !.con[k].onqueue = TRUE]

\* client_sock_callback, ET_DESTROY
socket_destroy(s, k) ==
  LET a == [s EXCEPT !.con[k].sockdel = FALSE,
                     !.con[k].freeflag =
                        IF HasFlag(@, FREEFLAG_SOCKET) THEN @ - FREEFLAG_SOCKET
                        ELSE @]
  IN IF a.con[k].freeflag = 0 /\ a.con[k].client = NULL
     THEN free_connection(a, k) ELSE a

\* client_timer_callback, ET_DESTROY
timer_destroy(s, k) ==
  LET a == [s EXCEPT !.con[k].timerdel = FALSE,
                     !.con[k].active = FALSE,
                     !.con[k].onqueue = FALSE,
                     !.con[k].freeflag =
                        IF HasFlag(@, FREEFLAG_TIMER) THEN @ - FREEFLAG_TIMER
                        ELSE @]
  IN IF a.con[k].freeflag = 0 /\ a.con[k].client = NULL
     THEN free_connection(a, k) ELSE a

(***************************************************************************)
(* The send queue of a link: send_buffer puts a message on the priority    *)
(* or on the normal queue, send_queued writes what the socket takes, the   *)
(* priority queue first.  A queued message is                              *)
(* [id, prio, len, left, at, cut]: its number in order of queueing, its    *)
(* class, its length, the bytes not yet written, how many messages had     *)
(* gone out in full when it was queued, and the message that was then      *)
(* partly written (0 if none).                                             *)
(***************************************************************************)
SentAll(m) == [m EXCEPT !.left = 0]

\* send_queued writing the older message first, whatever its class
RECURSIVE send_queued_byage(_, _, _, _)
send_queued_byage(p, n, w, budget) ==
  IF budget = 0 \/ (p = <<>> /\ n = <<>>) THEN [prio |-> p, norm |-> n, wire |-> w]
  ELSE IF p # <<>> /\ (n = <<>> \/ Head(p).id < Head(n).id)
  THEN IF Head(p).left <= budget
       THEN send_queued_byage(Tail(p), n, Append(w, SentAll(Head(p))),
                              budget - Head(p).left)
       ELSE [prio |-> <<[Head(p) EXCEPT !.left = @ - budget]>> \o Tail(p),
             norm |-> n, wire |-> w]
  ELSE IF Head(n).left <= budget
       THEN send_queued_byage(p, Tail(n), Append(w, SentAll(Head(n))),
                              budget - Head(n).left)
       ELSE [prio |-> p,
             norm |-> <<[Head(n) EXCEPT !.left = @ - budget]>> \o Tail(n),
             wire |-> w]

\* send_queued: write up to budget bytes, from the priority queue first,
\* then from the normal queue; a message written in full leaves its queue
RECURSIVE send_queued(_, _, _, _)
send_queued(p, n, w, budget) ==
  IF budget = 0 \/ (p = <<>> /\ n = <<>>) THEN [prio |-> p, norm |-> n, wire |-> w]
  ELSE IF p # <<>>
  THEN IF Head(p).left <= budget
       THEN send_queued(Tail(p), n, Append(w, SentAll(Head(p))),
                        budget - Head(p).left)
       ELSE [prio |-> <<[Head(p) EXCEPT !.left = @ - budget]>> \o Tail(p),
             norm |-> n, wire |-> w]
  ELSE IF Head(n).left <= budget
       THEN send_queued(p, Tail(n), Append(w, SentAll(Head(n))),
                        budget - Head(n).left)
       ELSE [prio |-> p,
             norm |-> <<[Head(n) EXCEPT !.left = @ - budget]>> \o Tail(n),
             wire |-> w]

\* the id of the queued message of which some bytes are written, 0 if none
PartlyWritten(q) ==
  LET begun == {i \in 1..Len(q) : q[i].left < q[i].len}
  IN IF begun = {} THEN 0 ELSE q[CHOOSE i \in begun : TRUE].id

\* send_buffer(to, buf, prio): append to the queue of its class
send_buffer(p, n, m) ==
  IF m.prio THEN [prio |-> Append(p, m), norm |-> n]
  ELSE [prio |-> p, norm |-> Append(n, m)]

(***************************************************************************)
(* Admission: ConfItems of one connection class, the local clients         *)
(* attached to them, rehash and the reclamation of illegal ConfItems.      *)
(* A slot of GlobalConfList is "none" (no ConfItem), "active", or          *)
(* "illegal" (CONF_ILLEGAL set: logically deleted, live until its last     *)
(* attached client departs).                                               *)
(***************************************************************************)
ConfItems == 1..MaxConfs
ConfUsers == 1..(MaxClassLinks + 1)
NoConf == [status |-> "none", clients |-> 0]
ConfState == [conf |-> conf, attached |-> attached, acr |-> acr]

IsIllegal(x) == x.status = "illegal"

RECURSIVE ConfLinks(_, _)
\* links held in the connection class: the clients of its ConfItems
ConfLinks(cf, S) ==
  IF S = {} THEN 0
  ELSE LET c == CHOOSE x \in S : TRUE
       IN cf[c].clients + ConfLinks(cf, S \ {c})

\* attach_conf that leaves the counter incremented when it rejects
attach_conf_nodecrement(s, cptr, aconf, ip_ok) ==
  LET full == ConfLinks(s.conf, ConfItems) >= MaxClassLinks
      inc  == [s.conf EXCEPT ![aconf].clients = @ + 1]
  IN IF <<cptr, aconf>> \in s.attached
     THEN [s EXCEPT !.acr = "ACR_ALREADY_AUTHORIZED"]
     ELSE IF IsIllegal(s.conf[aconf])
     THEN [s EXCEPT !.acr = "ACR_NO_AUTHORIZATION"]
     ELSE IF full
     THEN [s EXCEPT !.conf = inc, !.acr = "ACR_TOO_MANY_IN_CLASS"]
     ELSE IF ~ip_ok
     THEN [s EXCEPT !.conf = inc, !.acr = "ACR_TOO_MANY_FROM_IP"]
     ELSE [conf |-> inc, attached |-> s.attached \cup {<<cptr, aconf>>},
           acr |-> "ACR_OK"]

\* attach_conf(cptr, aconf): count the client on the ConfItem; a full class
\* or a full IP rejects the attach and takes the count back
attach_conf(s, cptr, aconf, ip_ok) ==
  LET full == ConfLinks(s.conf, ConfItems) >= MaxClassLinks
      inc  == [s.conf EXCEPT ![aconf].clients = @ + 1]
      dec  == [inc EXCEPT ![aconf].clients = @ - 1]
  IN IF <<cptr, aconf>> \in s.attached
     THEN [s EXCEPT !.acr = "ACR_ALREADY_AUTHORIZED"]
     ELSE IF IsIllegal(s.conf[aconf])
     THEN [s EXCEPT !.acr = "ACR_NO_AUTHORIZATION"]
     ELSE IF full
     THEN [s EXCEPT !.conf = dec, !.acr = "ACR_TOO_MANY_IN_CLASS"]
     ELSE IF ~ip_ok
     THEN [s EXCEPT !.conf = dec, !.acr = "ACR_TOO_MANY_FROM_IP"]
     ELSE [conf |-> inc, attached |-> s.attached \cup {<<cptr, aconf>>},
           acr |-> "ACR_OK"]

\* detach_conf(cptr, aconf): unlink from cli_confs and decrement
detach_conf(s, cptr, aconf) ==
  IF <<cptr, aconf>> \notin s.attached THEN s
  ELSE [s EXCEPT !.attached = @ \ {<<cptr, aconf>>},
                 !.conf = [@ EXCEPT ![aconf].clients = @ - 1]]

RECURSIVE detach_confs(_, _)
\* detach every pair of a set, one detach_conf each
detach_confs(s, pairs) ==
  IF pairs = {} THEN s
  ELSE LET p == CHOOSE x \in pairs : TRUE
       IN detach_confs(detach_conf(s, p[1], p[2]), pairs \ {p})

\* det_confs_butmask(cptr, 0): detach all ConfItems of a client
det_confs_butmask(s, cptr) ==
  detach_confs(s, {p \in s.attached : p[1] = cptr})

\* reclamation that does not look at the clients counter
free_illegal_confs_anyclients(s) ==
  [s EXCEPT !.conf = [c \in ConfItems |->
                        IF IsIllegal(@[c]) THEN NoConf ELSE @[c]]]

\* reclaim the ConfItems with CONF_ILLEGAL and clients == 0
free_illegal_confs(s) ==
  [s EXCEPT !.conf = [c \in ConfItems |->
                        IF IsIllegal(@[c]) /\ @[c].clients = 0 THEN NoConf
                        ELSE @[c]]]

RECURSIVE reattach(_, _, _)
\* attach the clients of a set to one ConfItem, one attach_conf each
reattach(s, users, aconf) ==
  IF users = {} THEN s
  ELSE LET u == CHOOSE x \in users : \A y \in users : x <= y
       IN reattach(attach_conf(s, u, aconf, TRUE), users \ {u}, aconf)

\* rehash: the ConfItems of the old snapshot not found again in the new one
\* (those outside same) become illegal, the new snapshot adds the ConfItems
\* of added; attached clients drop the illegal ConfItems that no longer
\* match (dropped) and attach again (to target, if the new policy has one
\* for them); illegal ConfItems without clients are reclaimed
rehash(s, same, added, dropped, target) ==
  LET marked == [s EXCEPT !.conf =
                   [c \in ConfItems |->
                      IF c \in added THEN [status |-> "active", clients |-> 0]
                      ELSE IF @[c].status = "active" /\ c \notin same
                           THEN [@[c] EXCEPT !.status = "illegal"]
                           ELSE @[c]]]
      detached == detach_confs(marked, dropped)
      again == IF target \in ConfItems
               THEN reattach(detached, {p[1] : p \in dropped}, target)
               ELSE detached
  IN [free_illegal_confs(again) EXCEPT !.acr = s.acr]

(***************************************************************************)
(* Channel fanout.  Two users are local, three are remote: two behind the  *)
(* server link S1, one behind S2.  A recipient is a local user or a        *)
(* server link; sent counts the copies a call queues for each.             *)
(***************************************************************************)
LocalUsers == {"L1", "L2"}
RemoteUsers == {"R1", "R2", "R3"}
Servers == {"S1", "S2"}
Channels == {"#a", "#b"}
ChanUsers == LocalUsers \cup RemoteUsers
Recipients == LocalUsers \cup Servers

\* the directly connected client a user is reached through
from_link(u) ==
  IF u \in LocalUsers THEN u ELSE IF u \in {"R1", "R2"} THEN "S1" ELSE "S2"

\* a null struct Client * passed as one
NoClient == "NULL"
NoSend == [r \in Recipients |-> 0]
NoCall == [fn |-> "none"]
Members(m, chan) == {u \in ChanUsers : m[<<u, chan>>] # "no"}

RECURSIVE common_channels_nomark(_, _, _, _)
\* the member loop of sendcmdto_common_channels without the marker test
common_channels_nomark(todo, marks, marker, out) ==
  IF todo = {} THEN [sentalong |-> marks, sent |-> out]
  ELSE LET p == CHOOSE x \in todo : TRUE
           u == p[1]
       IN IF u \in LocalUsers
          THEN common_channels_nomark(todo \ {p}, [marks EXCEPT ![u] = marker],
                                      marker, [out EXCEPT ![u] = @ + 1])
          ELSE common_channels_nomark(todo \ {p}, marks, marker, out)

RECURSIVE common_channels(_, _, _, _)
\* the member loop of sendcmdto_common_channels: todo holds the
\* <<member, channel>> pairs still to visit; a local member not yet marked
\* with this call's marker is marked and gets the message
common_channels(todo, marks, marker, out) ==
  IF todo = {} THEN [sentalong |-> marks, sent |-> out]
  ELSE LET p == CHOOSE x \in todo : TRUE
           u == p[1]
       IN IF u \in LocalUsers /\ marks[u] # marker
          THEN common_channels(todo \ {p}, [marks EXCEPT ![u] = marker],
                               marker, [out EXCEPT ![u] = @ + 1])
          ELSE common_channels(todo \ {p}, marks, marker, out)

\* sendcmdto_common_channels(from, ...): a new marker, then every member of
\* every channel from is on
sendcmdto_common_channels(m, marks, marker, from) ==
  common_channels({p \in ChanUsers \X Channels :
                     m[<<from, p[2]>>] # "no" /\ m[p] # "no"},
                  marks, marker + 1, NoSend)

RECURSIVE channel_butone_permember(_, _, _, _, _, _, _)
\* the member loop of sendcmdto_channel_butone queueing on the link of
\* every remote member
channel_butone_permember(todo, m, chan, one, skip, links, out) ==
  IF todo = {}
  THEN out
  ELSE LET u == CHOOSE x \in todo : TRUE
           rest == todo \ {u}
           l == from_link(u)
       IN IF u = one \/ l = one
             \/ ("SKIP_NONOPS" \in skip /\ m[<<u, chan>>] # "op")
          THEN channel_butone_permember(rest, m, chan, one, skip, links, out)
          ELSE IF u \in LocalUsers
          THEN IF "SKIP_DEAF" \in skip /\ u \in deaf
               THEN channel_butone_permember(rest, m, chan, one, skip, links, out)
               ELSE channel_butone_permember(rest, m, chan, one, skip, links,
                                             [out EXCEPT ![u] = @ + 1])
          ELSE IF "SKIP_BURST" \in skip /\ <<l, chan>> \in bursting
          THEN channel_butone_permember(rest, m, chan, one, skip, links, out)
          ELSE channel_butone_permember(rest, m, chan, one, skip, links,
                                        [out EXCEPT ![l] = @ + 1])

RECURSIVE channel_butone(_, _, _, _, _, _, _)
\* the member loop of sendcmdto_channel_butone: one and what is reached
\* through one are skipped, with SKIP_NONOPS the members without op, with
\* SKIP_DEAF the local members that are +d; a local member gets the message,
\* the link of a remote member is recorded in links; at the end every
\* recorded link gets the message once, but not, with SKIP_BURST, a link
\* that is bursting the channel
channel_butone(todo, m, chan, one, skip, links, out) ==
  IF todo = {}
  THEN [r \in Recipients |->
          IF r \in links /\ ~("SKIP_BURST" \in skip /\ <<r, chan>> \in bursting)
          THEN out[r] + 1 ELSE out[r]]
  ELSE LET u == CHOOSE x \in todo : TRUE
           rest == todo \ {u}
           l == from_link(u)
       IN IF u = one \/ l = one
             \/ ("SKIP_NONOPS" \in skip /\ m[<<u, chan>>] # "op")
          THEN channel_butone(rest, m, chan, one, skip, links, out)
          ELSE IF u \in LocalUsers
          THEN IF "SKIP_DEAF" \in skip /\ u \in deaf
               THEN channel_butone(rest, m, chan, one, skip, links, out)
               ELSE channel_butone(rest, m, chan, one, skip, links,
                                   [out EXCEPT ![u] = @ + 1])
          ELSE channel_butone(rest, m, chan, one, skip, links \cup {l}, out)

\* sendcmdto_channel_butone(from, cmd, tok, to, one, skip, ...)
sendcmdto_channel_butone(m, chan, one, skip) ==
  channel_butone(Members(m, chan), m, chan, one, skip, {}, NoSend)

(***************************************************************************)
(* add_dlink / remove_dlink                                                *)
(***************************************************************************)
DLinkCells == 1..MaxDLinks
\* the clients put on the list: a user and the server itself
DLinkValues == {MaxClients, ME}
DLinkState == [dlink |-> dlink, head |-> dlinkHead, live |-> dlinkLive]

\* the nodes reached from the head by following next
DList(s) ==
  Chain([c \in DLinkCells |-> s.dlink[c].next], DLinkCells, s.head, MaxDLinks + 1)

\* add_dlink(lpp, cp), lp being the cell MyMalloc returns
add_dlink(s, lp, cp) ==
  LET a == [s EXCEPT !.live = @ \cup {lp},
                     !.dlink[lp] = [value |-> cp, prev |-> NULL, next |-> s.head]]
      b == IF a.dlink[lp].next # NULL
           THEN [a EXCEPT !.dlink[a.dlink[lp].next].prev = lp] ELSE a
  IN [b EXCEPT !.head = lp]

\* remove_dlink that leaves the prev of the following node as it is
remove_dlink_noprevfix(s, lp) ==
  LET pv == s.dlink[lp].prev
      nx == s.dlink[lp].next
      a == IF pv # NULL THEN [s EXCEPT !.dlink[pv].next = nx]
           ELSE [s EXCEPT !.head = nx]
  IN [a EXCEPT !.live = @ \ {lp}]

\* remove_dlink(lpp, lp); MyFree(lp) leaves the bytes of the node behind
remove_dlink(s, lp) ==
  LET pv == s.dlink[lp].prev
      nx == s.dlink[lp].next
      a == IF pv # NULL
           THEN LET b == [s EXCEPT !.dlink[pv].next = nx]
                IN IF nx # NULL THEN [b EXCEPT !.dlink[nx].prev = pv] ELSE b
           ELSE LET b == [s EXCEPT !.head = nx]
                IN IF nx # NULL THEN [b EXCEPT !.dlink[nx].prev = NULL] ELSE b
  IN [a EXCEPT !.live = @ \ {lp}]

(***************************************************************************)
(* The state machine.                                                      *)
(***************************************************************************)
\* the statics of list.c are zero; ircd.c sets up `me' and GlobalClientList
Init ==
  /\ cli = [c \in ClientCells \cup {ME} |->
              IF c = ME
              THEN [ZeroClient EXCEPT !.magic = CLIENT_MAGIC, !.status = STAT_ME,
                                      !.connect = ME_CON, !.hnext = ME]
              ELSE ZeroClient]
  /\ con = [k \in ConnCells \cup {ME_CON} |->
              IF k = ME_CON
              THEN [ZeroConnection EXCEPT !.magic = CONNECTION_MAGIC,
                                          !.fd = -1, !.client = ME]
              ELSE ZeroConnection]
  /\ slink = [l \in LinkCells |-> [next |-> NULL]]
  /\ clientFreeList = NULL
  /\ connectionFreeList = NULL
  /\ slinkFreeList = NULL
  /\ clientAllocCount = 0
  /\ connectionAllocCount = 0
  /\ slinkAllocCount = 0
  /\ GlobalClientList = ME
  /\ servLive = {}
  /\ whowas = <<>>
  /\ openFds = {}
  /\ ebadf = FALSE
  /\ abort = "none"
  /\ started = FALSE
  /\ pc = "idle"
  /\ cur = NULL
  /\ prioQ = <<>>
  /\ normQ = <<>>
  /\ wire = <<>>
  /\ msgCount = 0
  /\ conf = [c \in ConfItems |-> NoConf]
  /\ attached = {}
  /\ acr = "ACR_OK"
  /\ member = [p \in ChanUsers \X Channels |-> "no"]
  /\ deaf = {}
  /\ bursting = {}
  /\ sentalong = [u \in LocalUsers |-> 0]
  /\ sentalong_marker = 0
  /\ sent = NoSend
  /\ last = NoCall
  /\ dlink = [c \in DLinkCells |-> [value |-> JUNK, prev |-> JUNK, next |-> JUNK]]
  /\ dlinkHead = NULL
  /\ dlinkLive = {}

Running == abort = "none" /\ started /\ pc = "idle"

AllocatedClients == 1..clientAllocCount
AllocatedConns == 1..connectionAllocCount
\* links handed out by make_link and not given back
LinksInUse == (1..slinkAllocCount) \ Range(LinkFreeSeq(State))
\* connections of a live local client
LiveConns == {k \in AllocatedConns : con_verify(State, k) /\ con[k].client # NULL}
LiveClients == {c \in AllocatedClients : cli_verify(State, c)}

init_list_call ==
  /\ abort = "none" /\ ~started
  /\ \E raw \in HeapImages : Becomes(init_list(State, raw.client, raw.connection))
  /\ started' = TRUE
  /\ UNCHANGED <<pc, cur>>

make_client_call(from, status) ==
  /\ Running
  /\ clientFreeList # NULL \/ clientAllocCount < MaxClients
  /\ from # NULL \/ connectionFreeList # NULL \/ connectionAllocCount < MaxConns
  /\ Becomes(make_client(State, from, status))
  /\ UNCHANGED <<started, pc, cur>>

free_client_call(cptr) ==
  /\ Running
  /\ Becomes(free_client(State, cptr))
  /\ UNCHANGED <<started, pc, cur>>

free_connection_call(k) ==
  /\ Running
  /\ Becomes(free_connection(State, k))
  /\ UNCHANGED <<started, pc, cur>>

make_server_call(cptr) ==
  /\ Running
  /\ cli[cptr].status = STAT_SERVER
  /\ Becomes(make_server(State, cptr))
  /\ UNCHANGED <<started, pc, cur>>

make_user_call(cptr) ==
  /\ Running
  /\ cli[cptr].user = 0
  /\ Becomes(make_user(State, cptr))
  /\ UNCHANGED <<started, pc, cur>>

add_client_to_list_call(cptr) ==
  /\ Running
  /\ Becomes(add_client_to_list(State, cptr))
  /\ UNCHANGED <<started, pc, cur>>

\* remove_client_from_list(cptr) is entered: assertions and unlink
rcl_enter(cptr) ==
  /\ Running
  /\ Becomes(rcl_unlink(State, cptr))
  /\ pc' = IF abort' = "none" THEN rcl_after(pc) ELSE pc
  /\ cur' = cptr
  /\ UNCHANGED started

rcl_step ==
  /\ abort = "none" /\ pc # "idle"
  /\ Becomes(CASE pc = "history" -> rcl_history(State, cur)
               [] pc = "user" -> rcl_user(State, cur)
               [] pc = "serv" -> rcl_serv(State, cur)
               [] pc = "free" -> free_client(State, cur))
  /\ pc' = IF abort' = "none" THEN rcl_after(pc) ELSE pc
  /\ UNCHANGED <<started, cur>>

make_link_call ==
  /\ Running
  /\ slinkFreeList # NULL \/ slinkAllocCount < MaxLinks
  /\ \E img \in LinkImages : Becomes(make_link(State, img))
  /\ UNCHANGED <<started, pc, cur>>

free_link_call(lp) ==
  /\ Running
  /\ Becomes(free_link(State, lp))
  /\ UNCHANGED <<started, pc, cur>>

add_connection_call(k) ==
  /\ Running
  /\ con[k].fd = -1 /\ ~HasFlag(con[k].freeflag, FREEFLAG_SOCKET)
  /\ AcceptedFd(k) \notin openFds
  /\ Becomes(add_connection(State, k))
  /\ UNCHANGED <<started, pc, cur>>

timer_add_call(k) ==
  /\ Running
  /\ ~HasFlag(con[k].freeflag, FREEFLAG_TIMER) /\ ~con[k].active
  /\ Becomes(timer_add(State, k))
  /\ UNCHANGED <<started, pc, cur>>

socket_destroy_event(k) ==
  /\ Running
  /\ con[k].sockdel
  /\ Becomes(socket_destroy(State, k))
  /\ UNCHANGED <<started, pc, cur>>

timer_destroy_event(k) ==
  /\ Running
  /\ con[k].timerdel
  /\ Becomes(timer_destroy(State, k))
  /\ UNCHANGED <<started, pc, cur>>

\* the calls, with every argument a caller can pass
InitList == init_list_call
MakeLocalClient ==
  \E status \in {STAT_SERVER, STAT_USER} : make_client_call(NULL, status)
MakeUserClient ==
  \E from \in {NULL} \cup AllocatedClients : make_client_call(from, STAT_USER)
FreeClient == \E cptr \in {NULL} \cup AllocatedClients : free_client_call(cptr)
FreeConnection == \E k \in {NULL} \cup AllocatedConns : free_connection_call(k)
AddConnection == \E k \in LiveConns : add_connection_call(k)
TimerAdd == \E k \in LiveConns : timer_add_call(k)
SocketDestroy == \E k \in AllocatedConns : socket_destroy_event(k)
TimerDestroy == \E k \in AllocatedConns : timer_destroy_event(k)
MakeLink == make_link_call
FreeLink == \E lp \in {NULL} \cup LinksInUse : free_link_call(lp)
MakeServer == \E cptr \in LiveClients : make_server_call(cptr)
MakeUser == \E cptr \in LiveClients : make_user_call(cptr)
AddClientToList == \E cptr \in AllocatedClients : add_client_to_list_call(cptr)
RemoveClientFromList == \E cptr \in AllocatedClients \cup {ME} : rcl_enter(cptr)
RemoveClientStep == rcl_step

\* clients and their connections, driven by the event engine
Next ==
  \/ InitList
  \/ MakeUserClient
  \/ FreeClient
  \/ FreeConnection
  \/ AddConnection
  \/ TimerAdd
  \/ SocketDestroy
  \/ TimerDestroy

Spec == Init /\ [][Next]_vars

\* local clients come and go, and the event engine delivers every queued
\* deletion
ReapNext ==
  \/ InitList
  \/ make_client_call(NULL, STAT_USER)
  \/ FreeClient
  \/ AddConnection
  \/ TimerAdd
  \/ SocketDestroy
  \/ TimerDestroy

SpecReap ==
  /\ Init /\ [][ReapNext]_vars
  /\ \A k \in ConnCells :
       WF_vars(socket_destroy_event(k)) /\ WF_vars(timer_destroy_event(k))

\* a registered client enters the hash table
hAddClient_call(cptr) ==
  /\ Running
  /\ cli[cptr].hnext = cptr
  /\ Becomes(hAddClient(State, cptr))
  /\ UNCHANGED <<started, pc, cur>>

\* exit of a client: out of the hash table, then remove_client_from_list
exit_one_client_call(cptr) ==
  /\ Running
  /\ Becomes(rcl_unlink(hRemClient(State, cptr), cptr))
  /\ pc' = IF abort' = "none" THEN rcl_after(pc) ELSE pc
  /\ cur' = cptr
  /\ UNCHANGED started

\* clients are made, hashed, listed, and leave through exit or a bare
\* free_client
UnlinkNext ==
  \/ InitList
  \/ make_client_call(NULL, STAT_USER)
  \/ \E cptr \in LiveClients : hAddClient_call(cptr)
  \/ AddClientToList
  \/ FreeClient
  \/ \E cptr \in AllocatedClients : exit_one_client_call(cptr)
  \/ RemoveClientStep

SpecUnlink == Init /\ [][UnlinkNext]_vars

\* the three pools: acquire and release of clients, connections and links
PoolNext ==
  \/ InitList
  \/ MakeUserClient
  \/ FreeClient
  \/ MakeLink
  \/ FreeLink

SpecPool == Init /\ [][PoolNext]_vars

\* the client list and the teardown of a client
TeardownNext ==
  \/ InitList
  \/ MakeLocalClient
  \/ MakeServer
  \/ MakeUser
  \/ AddClientToList
  \/ RemoveClientFromList
  \/ RemoveClientStep

SpecTeardown == Init /\ [][TeardownNext]_vars

send_buffer_call(len, prio) ==
  /\ msgCount < MaxMsgs
  /\ LET m == [id |-> msgCount + 1, prio |-> prio, len |-> len, left |-> len,
               at |-> Len(wire), cut |-> PartlyWritten(prioQ \o normQ)]
         q == send_buffer(prioQ, normQ, m)
     IN prioQ' = q.prio /\ normQ' = q.norm
  /\ msgCount' = msgCount + 1
  /\ UNCHANGED <<wire, listVars, confVars, chanVars, dlinkVars>>

send_queued_call(budget) ==
  /\ prioQ # <<>> \/ normQ # <<>>
  /\ LET r == send_queued(prioQ, normQ, wire, budget)
     IN prioQ' = r.prio /\ normQ' = r.norm /\ wire' = r.wire
  /\ UNCHANGED <<msgCount, listVars, confVars, chanVars, dlinkVars>>

\* one link's send queue
SendNext ==
  \/ \E len \in 1..MaxMsgLen, prio \in BOOLEAN : send_buffer_call(len, prio)
  \/ \E budget \in 1..MaxMsgLen : send_queued_call(budget)

SpecSend == Init /\ [][SendNext]_vars

ConfBecomes(s) ==
  /\ conf' = s.conf
  /\ attached' = s.attached
  /\ acr' = s.acr
  /\ UNCHANGED <<listVars, msgqVars, chanVars, dlinkVars>>

attach_conf_call(cptr, aconf) ==
  /\ conf[aconf].status # "none"
  /\ \E ip_ok \in BOOLEAN : ConfBecomes(attach_conf(ConfState, cptr, aconf, ip_ok))

detach_conf_call(cptr, aconf) ==
  /\ <<cptr, aconf>> \in attached
  /\ ConfBecomes(detach_conf(ConfState, cptr, aconf))

\* exit of a local client: its ConfItems are detached
exit_client_call(cptr) ==
  /\ \E c \in ConfItems : <<cptr, c>> \in attached
  /\ ConfBecomes(det_confs_butmask(ConfState, cptr))

rehash_call ==
  \E same \in SUBSET {c \in ConfItems : conf[c].status = "active"},
     added \in SUBSET {c \in ConfItems : conf[c].status = "none"} :
    \E dropped \in SUBSET {p \in attached :
                             conf[p[2]].status = "illegal" \/ p[2] \notin same},
       target \in added \cup {0} :
      ConfBecomes(rehash(ConfState, same, added, dropped, target))

\* the event loop between two ticks
quiescent_point ==
  /\ \E c \in ConfItems : IsIllegal(conf[c]) /\ conf[c].clients = 0
  /\ ConfBecomes(free_illegal_confs(ConfState))

\* admission, exits and rehashes
ConfNext ==
  \/ \E cptr \in ConfUsers, aconf \in ConfItems : attach_conf_call(cptr, aconf)
  \/ \E cptr \in ConfUsers, aconf \in ConfItems : detach_conf_call(cptr, aconf)
  \/ \E cptr \in ConfUsers : exit_client_call(cptr)
  \/ rehash_call
  \/ quiescent_point

SpecConf == Init /\ [][ConfNext]_vars
\* the event loop goes on, so a quiescent point that is due is reached
SpecConfLive == SpecConf /\ WF_vars(quiescent_point)

\* a change of the channels: what the last call queued has gone out
ChanChange ==
  /\ sent' = NoSend
  /\ last' = NoCall
  /\ UNCHANGED <<sentalong, sentalong_marker, listVars, msgqVars, confVars, dlinkVars>>

add_user_to_channel_call(chan, who, flags) ==
  /\ member[<<who, chan>>] = "no"
  /\ member' = [member EXCEPT ![<<who, chan>>] = flags]
  /\ UNCHANGED <<deaf, bursting>>
  /\ ChanChange

remove_user_from_channel_call(who, chan) ==
  /\ member[<<who, chan>>] # "no"
  /\ member' = [member EXCEPT ![<<who, chan>>] = "no"]
  /\ UNCHANGED <<deaf, bursting>>
  /\ ChanChange

\* user mode +d / -d of a local user
set_deaf_call(who) ==
  /\ deaf' = IF who \in deaf THEN deaf \ {who} ELSE deaf \cup {who}
  /\ UNCHANGED <<member, bursting>>
  /\ ChanChange

\* a link starts or ends the burst of a channel
burst_call(link, chan) ==
  /\ bursting' = IF <<link, chan>> \in bursting THEN bursting \ {<<link, chan>>}
                 ELSE bursting \cup {<<link, chan>>}
  /\ UNCHANGED <<member, deaf>>
  /\ ChanChange

sendcmdto_common_channels_call(from) ==
  /\ sentalong_marker < MaxEpoch
  /\ LET r == sendcmdto_common_channels(member, sentalong, sentalong_marker, from)
     IN sentalong' = r.sentalong /\ sent' = r.sent
  /\ sentalong_marker' = sentalong_marker + 1
  /\ last' = [fn |-> "sendcmdto_common_channels", from |-> from]
  /\ UNCHANGED <<member, deaf, bursting, listVars, msgqVars, confVars, dlinkVars>>

\* from, cmd, tok and pattern only shape the text of the message
sendcmdto_channel_butone_call(chan, one, skip) ==
  /\ sent' = sendcmdto_channel_butone(member, chan, one, skip)
  /\ last' = [fn |-> "sendcmdto_channel_butone", to |-> chan, one |-> one,
              skip |-> skip]
  /\ UNCHANGED <<member, deaf, bursting, sentalong, sentalong_marker,
                 listVars, msgqVars, confVars, dlinkVars>>

\* users join and leave two channels, and a user's QUIT or NICK goes to the
\* users on its channels
CommonNext ==
  \/ \E who \in ChanUsers, chan \in Channels :
       add_user_to_channel_call(chan, who, "member")
  \/ \E who \in ChanUsers, chan \in Channels :
       remove_user_from_channel_call(who, chan)
  \/ \E from \in ChanUsers : sendcmdto_common_channels_call(from)

SpecCommon == Init /\ [][CommonNext]_vars

\* one channel: users join with or without op and leave, local users turn
\* deaf, links burst, and messages to the channel come in from a directly
\* connected client one (or from none)
ChannelNext ==
  \/ \E who \in ChanUsers, flags \in {"member", "op"} :
       add_user_to_channel_call("#a", who, flags)
  \/ \E who \in ChanUsers : remove_user_from_channel_call(who, "#a")
  \/ \E who \in LocalUsers : set_deaf_call(who)
  \/ \E link \in Servers : burst_call(link, "#a")
  \/ \E one \in Recipients \cup {NoClient},
        skip \in SUBSET {"SKIP_DEAF", "SKIP_BURST", "SKIP_NONOPS"} :
       sendcmdto_channel_butone_call("#a", one, skip)

SpecChannel == Init /\ [][ChannelNext]_vars

DLinkBecomes(s) ==
  /\ dlink' = s.dlink
  /\ dlinkHead' = s.head
  /\ dlinkLive' = s.live
  /\ UNCHANGED <<listVars, msgqVars, confVars, chanVars>>

add_dlink_call(lp, cp) ==
  /\ lp \notin dlinkLive
  /\ DLinkBecomes(add_dlink(DLinkState, lp, cp))

remove_dlink_call(lp) ==
  /\ lp \in Range(DList(DLinkState))
  /\ DLinkBecomes(remove_dlink(DLinkState, lp))

\* clients are put on one list and any node of it is taken off
DLinkNext ==
  \/ \E lp \in DLinkCells, cp \in DLinkValues : add_dlink_call(lp, cp)
  \/ \E lp \in DLinkCells : remove_dlink_call(lp)

SpecDLink == Init /\ [][DLinkNext]_vars

(***************************************************************************)
(* Properties.                                                             *)
(***************************************************************************)
FreeClients == Range(ClientFreeSeq(State))
FreeConns == Range(ConnFreeSeq(State))
FreeLinks == Range(LinkFreeSeq(State))
Referrers(k) == {c \in LiveClients \cup {ME} : cli[c].connect = k}
IsLocal(c) == cli_from(State, c) = c
\* a cell that has been in use: make_client left a descriptor or -1 in it
UsedConn(k) == con[k].fd \in {-1} \cup Fds
UsedClient(c) == cli[c].hnext = c

\* C1 as stated: every Connection that is not on the free list is referred
\* to (cli_connect) by exactly one live client, and that client is local.
C1_ExactlyOneReferrer ==
  \A k \in AllocatedConns \ FreeConns :
    /\ Cardinality(Referrers(k)) = 1
    /\ \A c \in Referrers(k) : IsLocal(c)

\* C1 amended: a Connection that is not on the free list has at most one
\* owner; a non-NULL con_client is a live client whose cli_connect is that
\* Connection (hence local).  The other referrers are remote clients.
C1_OwnerIsLiveAndBound ==
  \A k \in (AllocatedConns \ FreeConns) \cup {ME_CON} :
    /\ con[k].client # NULL =>
         /\ con[k].client \in LiveClients \cup {ME}
         /\ cli[con[k].client].connect = k
         /\ IsLocal(con[k].client)
    /\ \A c \in Referrers(k) : c # con[k].client => ~IsLocal(c)

C1_Witness ==
  \E k \in AllocatedConns \ FreeConns :
    /\ con[k].client \in LiveClients
    /\ \E c \in Referrers(k) : c # con[k].client

\* acquire a client, then release that same client
AcquireRelease(s) ==
  LET cptr == alloc_client_ret(s)
  IN dealloc_client([alloc_client(s) EXCEPT !.cli[cptr].magic = CLIENT_MAGIC],
                    cptr)
CanAcquireClient == clientFreeList # NULL \/ clientAllocCount < MaxClients
CanAcquireConn == connectionFreeList # NULL \/ connectionAllocCount < MaxConns
CanAcquireLink == slinkFreeList # NULL \/ slinkAllocCount < MaxLinks
BagOf(q) == [x \in Range(q) |-> Cardinality({i \in 1..Len(q) : q[i] = x})]

\* C2 as stated: in every pool state, the empty free list included, acquire
\* then release leaves the multiset of cells on the client free list as it was.
C2_AcquireReleaseConserves ==
  Running /\ CanAcquireClient =>
    BagOf(ClientFreeSeq(AcquireRelease(State))) = BagOf(ClientFreeSeq(State))

\* C2 amended: with a non-empty free list acquire then release leaves the
\* free list as it was; with an empty one the freshly allocated cell ends up
\* on the free list, which grows by that one cell.
C2_ConservesUnlessEmpty ==
  Running /\ CanAcquireClient =>
    LET after == AcquireRelease(State)
    IN /\ after.abort = "none"
       /\ clientFreeList # NULL =>
            /\ ClientFreeSeq(after) = ClientFreeSeq(State)
            /\ after.clientAllocCount = clientAllocCount
       /\ clientFreeList = NULL =>
            /\ ClientFreeSeq(after) = <<clientAllocCount + 1>>
            /\ after.clientAllocCount = clientAllocCount + 1

C2_Witness ==
  /\ Running
  /\ clientAllocCount > MAXCONNECTIONS
  /\ \E c \in FreeClients : UsedClient(c)

\* C3 as stated: every cell on a free list is poisoned: magic 0 and the
\* payload zeroed, for init_list's cells and for released ones.
C3_FreeCellsZeroed ==
  /\ \A c \in FreeClients : [cli[c] EXCEPT !.next = NULL] = ZeroClient
  /\ \A k \in FreeConns : [con[k] EXCEPT !.next = NULL] = ZeroConnection

\* C3 amended: a cell that dealloc_client / dealloc_connection puts on a
\* free list has magic 0 and no owner link (cli_connect, con_client), and
\* its magic stays 0 while it is on the list.
C3_ReleaseClearsMagic ==
  [][started =>
       LET fc == FreeClients
           fcn == FreeClients'
           fk == FreeConns
           fkn == FreeConns'
       IN /\ \A c \in fcn \ fc : cli'[c].magic = 0 /\ cli'[c].connect = NULL
          /\ \A c \in fcn \cap fc : cli'[c].magic = cli[c].magic
          /\ \A k \in fkn \ fk : con'[k].magic = 0 /\ con'[k].client = NULL
          /\ \A k \in fkn \cap fk : con'[k].magic = con[k].magic]_vars

\* released cells on both free lists, their payload still in place
C3_Witness ==
  /\ \E c \in FreeClients : cli[c].magic = 0 /\ UsedClient(c) /\ cli[c].status = STAT_USER
  /\ \E k \in FreeConns : con[k].magic = 0 /\ UsedConn(k)

\* C4 as stated: alloc_client, alloc_connection and make_link each return
\* a zeroed cell, also when it is freshly allocated.
C4_AcquireReturnsZeroed ==
  Running =>
    /\ CanAcquireClient =>
         alloc_client(State).cli[alloc_client_ret(State)] = ZeroClient
    /\ CanAcquireConn =>
         alloc_connection(State).con[alloc_connection_ret(State)] = ZeroConnection
    /\ CanAcquireLink =>
         \A img \in LinkImages :
           make_link(State, img).slink[make_link_ret(State)].next = NULL

\* C4 amended: alloc_client and alloc_connection return a zeroed cell that
\* is off the free list, popped or fresh, and never fail; make_link hands
\* out its cell as it is: a popped link still holds its free-list pointer,
\* a fresh one whatever MyMalloc returned.
C4_ClientAndConnectionZeroed ==
  Running =>
    /\ CanAcquireClient =>
         LET r == alloc_client_ret(State)
             a == alloc_client(State)
         IN /\ a.cli[r] = ZeroClient
            /\ a.abort = "none"
            /\ r \notin Range(ClientFreeSeq(a))
            /\ r \notin LiveClients
    /\ CanAcquireConn =>
         LET r == alloc_connection_ret(State)
             a == alloc_connection(State)
         IN /\ a.con[r] = ZeroConnection
            /\ a.abort = "none"
            /\ r \notin Range(ConnFreeSeq(a))
    /\ CanAcquireLink =>
         \A img \in LinkImages :
           LET r == make_link_ret(State)
               a == make_link(State, img)
           IN /\ a.abort = "none"
              /\ r \notin Range(LinkFreeSeq(a))
              /\ a.slink[r].next =
                   IF slinkFreeList # NULL THEN slink[r].next ELSE img

\* a client allocated past the pool, and a link handed out with a pointer in it
C4_Witness ==
  /\ Running
  /\ clientAllocCount > MAXCONNECTIONS
  /\ \E c \in LiveClients : c > MAXCONNECTIONS
  /\ \E l \in LinksInUse : slink[l].next \in LinkCells

TimerBusy(k) == con[k].active \/ con[k].onqueue
SocketOrTimerOwned(k) == con[k].freeflag # 0
ReleaseAsserts ==
  {"dealloc_connection: con_verify(con)",
   "dealloc_connection: !t_active(&(con_proc(con)))",
   "dealloc_connection: !t_onqueue(&(con_proc(con)))",
   "free_connection: con_verify(con)",
   "free_connection: 0 == con_client(con)"}

\* C5 as stated: a release (free_client of the owner, or free_connection)
\* on a Connection whose timer is active or queued, or whose freeflag is
\* set, trips an assertion and does not release it.
C5_BusyReleaseAsserts ==
  [][/\ \A c \in LiveClients :
          LET k == cli[c].connect
          IN free_client_call(c) /\ IsLocal(c)
               /\ (TimerBusy(k) \/ SocketOrTimerOwned(k))
             => abort' \in ReleaseAsserts /\ k \notin FreeConns'
     /\ \A k \in AllocatedConns :
          free_connection_call(k) /\ con_verify(State, k)
            /\ (TimerBusy(k) \/ SocketOrTimerOwned(k))
          => abort' \in ReleaseAsserts /\ k \notin FreeConns']_vars

\* C5 amended: no Connection goes onto the free list while its timer is
\* active or queued (dealloc_connection asserts it).  A set freeflag trips
\* no assertion: free_client does not release such a Connection, it queues
\* the socket / timer deletion; only a direct free_connection releases a
\* Connection whose freeflag is set.
C5_NoBusyTimerReleased ==
  [][/\ \A k \in AllocatedConns :
          k \notin FreeConns /\ k \in FreeConns' =>
            /\ ~TimerBusy(k)'
            /\ con'[k].freeflag = 0 \/ free_connection_call(k)
     /\ \A k \in AllocatedConns :
          free_connection_call(k) /\ con_verify(State, k)
            /\ con[k].client = NULL /\ TimerBusy(k)
          => abort' \in ReleaseAsserts /\ k \notin FreeConns'
     /\ \A c \in LiveClients :
          LET k == cli[c].connect
          IN free_client_call(c) /\ IsLocal(c) /\ abort' = "none"
               /\ SocketOrTimerOwned(k)
             => /\ k \notin FreeConns'
                /\ con'[k].sockdel =
                     (con[k].sockdel \/
                      (-1 < con[k].fd /\ HasFlag(con[k].freeflag, FREEFLAG_SOCKET)))
                /\ con'[k].timerdel =
                     (con[k].timerdel \/ HasFlag(con[k].freeflag, FREEFLAG_TIMER))]_vars

\* a release was refused by the timer assertion, on a Connection that
\* free_client had left behind with its deletions queued
C5_Witness ==
  /\ abort = "dealloc_connection: !t_active(&(con_proc(con)))"
  /\ \E k \in AllocatedConns \ FreeConns :
       con[k].client = NULL /\ con[k].sockdel /\ con[k].timerdel

\* C6 as stated: init_list leaves MAXCONNECTIONS cells on each of the three
\* free lists and each allocation counter at MAXCONNECTIONS.
C6_ThreePoolsPrimed ==
  [][init_list_call =>
       /\ Len(ClientFreeSeq(State)') = MAXCONNECTIONS
       /\ clientAllocCount' = MAXCONNECTIONS
       /\ Len(ConnFreeSeq(State)') = MAXCONNECTIONS
       /\ connectionAllocCount' = MAXCONNECTIONS
       /\ Len(LinkFreeSeq(State)') = MAXCONNECTIONS
       /\ slinkAllocCount' = MAXCONNECTIONS]_vars

\* C6 amended: init_list primes the client and the connection pool with
\* MAXCONNECTIONS cells each; the link pool starts empty, its counter at 0.
C6_ClientAndConnectionPrimed ==
  [][init_list_call =>
       /\ Len(ClientFreeSeq(State)') = MAXCONNECTIONS
       /\ clientAllocCount' = MAXCONNECTIONS
       /\ Len(ConnFreeSeq(State)') = MAXCONNECTIONS
       /\ connectionAllocCount' = MAXCONNECTIONS
       /\ Cardinality(FreeClients') = MAXCONNECTIONS
       /\ Cardinality(FreeConns') = MAXCONNECTIONS
       /\ slinkFreeList' = NULL
       /\ slinkAllocCount' = 0]_vars

C6_Witness ==
  /\ started
  /\ Len(ClientFreeSeq(State)) = MAXCONNECTIONS
  /\ Len(ConnFreeSeq(State)) = MAXCONNECTIONS
  /\ LiveClients = {}
  /\ slinkAllocCount = 0

\* new is old with at most its head removed or one cell put in front
HeadOnly(old, new) ==
  \/ new = old
  \/ old # <<>> /\ new = Tail(old)
  \/ new # <<>> /\ Tail(new) = old /\ Head(new) \notin Range(old)

C8_SecondReleaseIsNoOp ==
  [][\A k \in AllocatedConns :
       free_connection_call(k) /\ k \in FreeConns
         /\ con[k].magic = 0 /\ UsedConn(k)
       => /\ abort' = "none"
          /\ openFds' = openFds /\ ebadf' = ebadf
          /\ ConnFreeSeq(State)' = ConnFreeSeq(State)]_vars

\* C8 amended: the second release is refused: free_connection fails its
\* con_verify assertion, before any descriptor is closed and before the
\* cell is put on the free list again.
C8_SecondReleaseAsserts ==
  [][\A k \in AllocatedConns :
       free_connection_call(k) /\ k \in FreeConns
         /\ con[k].magic = 0 /\ UsedConn(k)
       => /\ abort' = "free_connection: con_verify(con)"
          /\ openFds' = openFds /\ ebadf' = ebadf
          /\ con' = con
          /\ ConnFreeSeq(State)' = ConnFreeSeq(State)]_vars

C8_Witness ==
  /\ abort = "free_connection: con_verify(con)"
  /\ FreeConns # {}
  /\ \A k \in AllocatedConns : k \in FreeConns /\ UsedConn(k) /\ con[k].magic = 0

Unlinked(c) ==
  /\ cli[c].next = NULL
  /\ cli[c].prev = NULL
  /\ c \notin Range(ClientListSeq(State))
LastWhowas == IF whowas = <<>> THEN NULL ELSE whowas[Len(whowas)]
Released(c) == ~cli_verify(State, c)

\* C9: remove_client_from_list unlinks the client from GlobalClientList
\* first, then adds a user to the whowas history, then releases the user
\* record, then the server record, and releases the Client record last:
\* the record is valid and off the list during every step in between, and
\* the function is over once the record is released.
C9_TeardownOrder ==
  [][abort' = "none" =>
       /\ pc' # "idle" => Unlinked(cur)' /\ ~Released(cur)'
       /\ \A c \in AllocatedClients :
            ~Released(c) /\ Released(c)' =>
              /\ c = cur /\ pc = "free" /\ pc' = "idle"
              /\ cli[c].user = 0
              /\ cli[c].serv \notin servLive
       /\ whowas' # whowas =>
            /\ pc = "history" /\ pc' = "user"
            /\ LastWhowas' = cur
            /\ IsUser(State, cur) /\ cli'[cur].user # 0
            /\ servLive' = servLive
       /\ (pc # "idle" /\ cli[cur].user # 0 /\ cli'[cur].user = 0) =>
            pc = "user" /\ pc' = "serv"
       /\ servLive' # servLive /\ pc # "idle" =>
            pc = "serv" /\ pc' = "free" /\ cli[cur].user = 0]_vars

\* the last step of the teardown of a listed user that went into whowas
C9_Witness ==
  /\ abort = "none" /\ pc = "free"
  /\ IsUser(State, cur) /\ LastWhowas = cur
  /\ cli[cur].user = 0
  /\ Len(ClientListSeq(State)) >= 2

\* the whowas entry of the user being torn down is in the history
DepartingInWhowas ==
  /\ abort = "none" /\ pc = "user"
  /\ IsUser(State, cur) /\ cli[cur].user # 0
  /\ LastWhowas = cur

\* C10 as stated: in no state does the whowas history hold the entry of a
\* departing user whose Client record is not yet off the list and released.
C10_WhowasOnlyAfterRelease ==
  DepartingInWhowas => Unlinked(cur) /\ Released(cur)

\* C10 amended: the whowas entry of a departing user appears after the
\* user is unlinked from GlobalClientList and before its Client record is
\* released; the record is released when remove_client_from_list is over.
C10_WhowasAfterUnlinkBeforeRelease ==
  [][abort' = "none" =>
       /\ whowas' # whowas =>
            /\ LastWhowas' = cur
            /\ Unlinked(cur) /\ Unlinked(cur)'
            /\ ~Released(cur)'
       /\ pc # "idle" /\ pc' = "idle" =>
            Released(cur)' /\ cur \notin Range(ClientListSeq(State))']_vars

C10_Witness ==
  /\ DepartingInWhowas
  /\ ~Released(cur)
  /\ Unlinked(cur)
  /\ Len(ClientListSeq(State)) >= 2

\* the client being torn down is a user with a user record
DepartingUser == IsUser(State, cur) /\ cli[cur].user # 0
RingLen(n) == IF n < WhowasLen THEN n + 1 ELSE WhowasLen

Upstream(c) == cli_from(State, c)
MaxHops == MaxClients + 1

\* following Upstream from c reaches Me in at most n steps, no node twice
RECURSIVE ReachesMeWithin(_, _, _)
ReachesMeWithin(c, seen, n) ==
  IF c = ME THEN TRUE
  ELSE IF n = 0 \/ c \notin LiveClients \/ c \in seen THEN FALSE
  ELSE ReachesMeWithin(Upstream(c), seen \cup {c}, n - 1)

\* C12 as stated: from every live client made by make_client, following
\* cli_from reaches Me within MaxHops steps without visiting a node twice.
C12_UpstreamReachesMe ==
  \A c \in LiveClients : ReachesMeWithin(c, {}, MaxHops)

\* C12 amended: following cli_from from a live client ends after at most
\* one step and not at Me: cli_from of a client made with from == NULL is
\* the client itself; cli_from of a client made with from != NULL is
\* cli_from(from); in every state cli_from of a live client is NULL (the
\* owner of the Connection was freed) or a live client that is its own
\* cli_from.
C12_UpstreamStopsAtLocalLink ==
  [][/\ \A c \in LiveClients' :
          \/ Upstream(c)' = NULL
          \/ /\ Upstream(c)' \in LiveClients'
             /\ Upstream(Upstream(c))' = Upstream(c)'
     /\ \A n \in LiveClients' \ LiveClients :
          \A from \in {NULL} \cup AllocatedClients :
            make_client_call(from, STAT_USER) =>
              Upstream(n)' = IF from = NULL THEN n ELSE Upstream(from)]_vars

\* a remote client whose upstream is the live local client it came through
C12_Witness ==
  /\ abort = "none"
  /\ \E c \in LiveClients :
       /\ Upstream(c) \in LiveClients \ {c}
       /\ Upstream(Upstream(c)) = Upstream(c)

\* the clients on GlobalClientList, head first
ClientList == ClientListSeq(State)

\* C18: after any sequence of add_client_to_list and remove_client_from_list
\* GlobalClientList is a well-formed doubly linked list: the head has no
\* prev, next and prev of neighbours agree, the list ends (no cycle), no
\* client is on it twice and every client on it is valid.
C18_ListWellFormed ==
  /\ GlobalClientList # NULL
  /\ cli[GlobalClientList].prev = NULL
  /\ \A i \in 1..(Len(ClientList) - 1) :
       /\ cli[ClientList[i]].next = ClientList[i + 1]
       /\ cli[ClientList[i + 1]].prev = ClientList[i]
  /\ cli[ClientList[Len(ClientList)]].next = NULL
  /\ Cardinality(Range(ClientList)) = Len(ClientList)
  /\ \A c \in Range(ClientList) : cli_verify(State, c)

\* two clients were added and the older of them, in the middle, removed
C18_Witness ==
  /\ abort = "none" /\ pc = "idle"
  /\ Len(ClientList) = 2
  /\ ClientList[1] > 1
  /\ \E c \in AllocatedClients : Released(c) /\ UsedClient(c) /\ c < ClientList[1]

Without(q, c) == SelectSeq(q, LAMBDA x : x # c)

\* C19: add_client_to_list inserts at the head and Me is never removed, so
\* Me is the last element of GlobalClientList, every other client on it has
\* a next pointer, and remove_client_from_list takes its unlink branch for,
\* and unlinks, every client that is on the list.
C19_MeLastAndUnlinked ==
  [][\A old \in {ClientList}, new \in {ClientList'} :
        /\ new # <<>>
        /\ new[Len(new)] = ME
        /\ \A c \in Range(new) \ {ME} : cli'[c].next # NULL
        /\ \A c \in AllocatedClients :
             /\ abort' = "none" /\ GlobalClientList' = c /\ GlobalClientList # c
             /\ add_client_to_list_call(c)
             => new = <<c>> \o old
        /\ \A c \in Range(old) :
             /\ pc = "idle" /\ cur' = c
             /\ pc' = "history" \/ abort' # "none"
             /\ rcl_enter(c)
             =>
               IF c = ME THEN abort' # "none" /\ new = old
               ELSE abort' = "none" =>
                      /\ cli[c].next # NULL
                      /\ new = Without(old, c)]_vars

\* the teardown of the oldest of two listed clients has just unlinked it
\* from between the newer client and Me
C19_Witness ==
  /\ abort = "none" /\ pc = "history"
  /\ Len(ClientList) = 2
  /\ ClientList[1] > cur
  /\ cli[ClientList[1]].next = ME /\ cli[ME].prev = ClientList[1]

\* C20: make_client(NULL, status) takes exactly one Connection from the
\* pool (the head of the free list, or a fresh cell when it is empty) and
\* binds it both ways, with fd -1, freeflag 0 and the unregistered handler;
\* make_client(from, status) with from != NULL takes none, leaves the pool
\* and every Connection as they are and uses cli_connect(from).
C20_MakeClientFrame ==
  [][\A from \in {NULL} \cup AllocatedClients :
       make_client_call(from, STAT_USER) /\ abort' = "none" =>
         /\ Cardinality(LiveClients' \ LiveClients) = 1
         /\ \A n \in LiveClients' \ LiveClients :
              IF from = NULL
              THEN LET k == cli'[n].connect
                   IN /\ k \in AllocatedConns' \ FreeConns'
                      /\ IF connectionFreeList # NULL
                         THEN /\ k = connectionFreeList
                              /\ ConnFreeSeq(State)' = Tail(ConnFreeSeq(State))
                              /\ connectionAllocCount' = connectionAllocCount
                         ELSE /\ k = connectionAllocCount + 1
                              /\ ConnFreeSeq(State)' = <<>>
                              /\ connectionAllocCount' = connectionAllocCount + 1
                      /\ con'[k] = [ZeroConnection EXCEPT
                                      !.magic = CONNECTION_MAGIC,
                                      !.fd = -1,
                                      !.handler = UNREGISTERED_HANDLER,
                                      !.client = n]
                      /\ \A j \in DOMAIN con \ {k} : con'[j] = con[j]
              ELSE /\ con' = con
                   /\ connectionFreeList' = connectionFreeList
                   /\ connectionAllocCount' = connectionAllocCount
                   /\ cli'[n].connect = cli[from].connect]_vars

\* a local client and a remote client made from it share the one
\* Connection the pool handed out
C20_Witness ==
  /\ abort = "none"
  /\ connectionAllocCount = MAXCONNECTIONS /\ connectionFreeList = NULL
  /\ \E a, b \in LiveClients :
       /\ a # b /\ cli[a].connect = cli[b].connect
       /\ con[cli[a].connect].client = a
       /\ con[cli[a].connect].fd = -1

Queued == Range(prioQ) \cup Range(normQ)
\* message n, the i-th on the wire, was queued before p and no byte of it
\* was written when p was queued
WaitingBefore(n, i, p) == n.id < p.id /\ i > p.at /\ n.id # p.cut

\* C13: on one link a priority message goes out before every normal message
\* that was queued before it and was still waiting, no byte of it written,
\* when it was queued, whatever the order of queueing; within a class
\* messages go out in the order they were queued.
C13_PriorityBeforeNormal ==
  /\ \A i, j \in 1..Len(wire) :
       i < j /\ ~wire[i].prio /\ wire[j].prio =>
         ~WaitingBefore(wire[i], i, wire[j])
  /\ \A i \in 1..Len(wire) : \A p \in Range(prioQ) :
       ~wire[i].prio => ~WaitingBefore(wire[i], i, p)
  /\ \A i, j \in 1..Len(wire) :
       i < j /\ wire[i].prio = wire[j].prio => wire[i].id < wire[j].id
  /\ \A i \in 1..Len(wire) : \A m \in Queued :
       wire[i].prio = m.prio => wire[i].id < m.id

\* a priority message went out ahead of two normal messages queued before
\* it, neither of them partly written when it was queued
C13_Witness ==
  \E i, j, k \in 1..Len(wire) :
    /\ i < j /\ j < k /\ wire[i].prio /\ ~wire[j].prio /\ ~wire[k].prio
    /\ wire[j].id < wire[i].id /\ wire[k].id < wire[i].id
    /\ wire[i].cut = 0

AttachedTo(c) == {p \in attached : p[2] = c}

\* C14: after any sequence of attach, detach, client exit and rehash, the
\* clients counter of every ConfItem is the number of clients attached to
\* it, and an attach rejected with ACR_TOO_MANY_IN_CLASS leaves the counter
\* of its ConfItem as it was.
C14_ClientsCountsAttached ==
  /\ [](\A c \in ConfItems : conf[c].clients = Cardinality(AttachedTo(c)))
  /\ [][\A cptr \in ConfUsers, aconf \in ConfItems :
          attach_conf_call(cptr, aconf) /\ acr' = "ACR_TOO_MANY_IN_CLASS"
            => conf'[aconf].clients = conf[aconf].clients]_vars

\* an attach was rejected for a full class while another client holds the
\* ConfItem
C14_Witness ==
  /\ acr = "ACR_TOO_MANY_IN_CLASS"
  /\ \E c \in ConfItems : conf[c].status = "active" /\ conf[c].clients > 0

\* C15: a ConfItem with CONF_ILLEGAL and no attached client is reclaimed by
\* the next quiescent point, so it does not stay in the configuration, and
\* a ConfItem with CONF_ILLEGAL leaves the configuration only with its
\* clients counter at zero: no client is left attached to it.
C15_IllegalReclaimedWhenUnused ==
  /\ \A c \in ConfItems :
       (IsIllegal(conf[c]) /\ conf[c].clients = 0) ~> (conf[c].status = "none")
  /\ [][/\ quiescent_point =>
             \A c \in ConfItems :
               IsIllegal(conf[c]) /\ conf[c].clients = 0 => conf'[c] = NoConf
        /\ \A c \in ConfItems :
             conf[c].status # "none" /\ conf'[c].status = "none" =>
               /\ conf'[c].clients = 0
               /\ AttachedTo(c)' = {}
               /\ quiescent_point => IsIllegal(conf[c]) /\ conf[c].clients = 0
        /\ \A c \in ConfItems :
             IsIllegal(conf[c]) /\ AttachedTo(c)' # {} =>
               IsIllegal(conf'[c]) /\ conf'[c].clients > 0]_vars

\* one illegal ConfItem has lost its last client and waits for the quiescent
\* point, another is kept by the client still attached to it
C15_Witness ==
  \E c, d \in ConfItems :
    /\ IsIllegal(conf[c]) /\ conf[c].clients = 0
    /\ IsIllegal(conf[d]) /\ conf[d].clients > 0

\* the channels two users are both on
Shared(u, v) == {ch \in Channels : member[<<u, ch>>] # "no" /\ member[<<v, ch>>] # "no"}

\* C16: sendcmdto_common_channels queues exactly one copy for each local
\* user that is on at least one channel with the source, however many
\* channels they share, none for another local user that shares none, and
\* nothing on a server link.
C16_OneCopyPerLocalUser ==
  [][\A from \in ChanUsers :
       sendcmdto_common_channels_call(from) =>
         /\ \A u \in LocalUsers :
              /\ Shared(from, u) # {} => sent'[u] = 1
              /\ Shared(from, u) = {} /\ u # from => sent'[u] = 0
         /\ \A l \in Servers : sent'[l] = 0]_vars

\* the last call was for a user that shares two channels with a local user
\* and a channel with a remote one
C16_Witness ==
  /\ last.fn = "sendcmdto_common_channels"
  /\ \E u \in LocalUsers \ {last.from} :
       Shared(last.from, u) = Channels /\ sent[u] = 1
  /\ \E r \in RemoteUsers \ {last.from} : Shared(last.from, r) # {}

\* the remote members of a channel behind a link that a call with these
\* skip flags is meant for
RemoteTargets(link, chan, skip) ==
  {u \in RemoteUsers :
     /\ from_link(u) = link
     /\ member[<<u, chan>>] # "no"
     /\ "SKIP_NONOPS" \in skip => member[<<u, chan>>] = "op"}

\* C17: sendcmdto_channel_butone queues no copy for the excluded client
\* one; for the remote members of the channel it queues the message exactly
\* once on each server link that has such members, however many they are,
\* and nothing on a link without them, on the link one, or, with
\* SKIP_BURST, on a link that is bursting the channel.
C17_ButOneOncePerLink ==
  [][last'.fn = "sendcmdto_channel_butone" =>
      \A chan \in {last'.to}, one \in {last'.one}, skip \in {last'.skip} :
         /\ one # NoClient => sent'[one] = 0
         /\ \A l \in Servers :
              sent'[l] = IF /\ RemoteTargets(l, chan, skip) # {}
                            /\ l # one
                            /\ ~("SKIP_BURST" \in skip /\ <<l, chan>> \in bursting)
                         THEN 1 ELSE 0]_vars

\* the last call excluded a local member, queued one copy on a link with
\* two members and none on the other link, which has a member and is
\* bursting the channel
C17_Witness ==
  /\ last.fn = "sendcmdto_channel_butone"
  /\ last.one \in LocalUsers /\ member[<<last.one, last.to>>] # "no"
  /\ "SKIP_BURST" \in last.skip
  /\ \E l, k \in Servers :
       /\ Cardinality(RemoteTargets(l, last.to, last.skip)) = 2 /\ sent[l] = 1
       /\ RemoteTargets(k, last.to, last.skip) # {} /\ <<k, last.to>> \in bursting
       /\ sent[k] = 0
  /\ \E u \in LocalUsers : sent[u] = 1

C22_LocalFreeReleasesOrDefers ==
  [][\A c \in AllocatedClients :
       /\ Running
       /\ cli_verify(State, c) /\ IsLocal(c)
       /\ free_client_call(c)
       => \A k \in {cli[c].connect} :
            /\ abort' = "none"
            /\ (connectionFreeList' = k /\ con'[k].magic = 0)
                 <=> (con[k].freeflag = 0 /\ ~con[k].active)
            /\ ~(con[k].freeflag = 0 /\ ~con[k].active) =>
                 /\ con' = [con EXCEPT
                      ![k].client = NULL,
                      ![k].sockdel = -1 < con[k].fd
                                     /\ HasFlag(con[k].freeflag, FREEFLAG_SOCKET),
                      ![k].timerdel = HasFlag(con[k].freeflag, FREEFLAG_TIMER)]
                 /\ connectionFreeList' = connectionFreeList
                 /\ openFds' = openFds
            /\ clientFreeList' = c
            /\ cli'[c].connect = NULL /\ cli'[c].magic = 0]_vars

\* one Connection went to the pool at once, another is kept for the socket
\* deletion that was queued for it, with no timer deletion queued
C22_Witness ==
  \E k, j \in AllocatedConns :
    /\ con_verify(State, k) /\ con[k].client = NULL
    /\ con[k].sockdel /\ ~con[k].timerdel
    /\ j \in FreeConns /\ UsedConn(j)
    /\ clientFreeList # NULL

\* a Connection that free_client left without owner and outside the pool
Orphaned(k) ==
  k \in AllocatedConns /\ con_verify(State, k) /\ con[k].client = NULL

\* C23: the Connection of a freed local client comes back to the connection
\* free list: at once, or, when free_client left it to the queued
\* deletions, after the event engine has delivered them (unless an
\* assertion has stopped the program before); the delivery that finds the
\* freeflag cleared calls free_connection, whose assertions hold then.
C23_NoConnectionLeaked ==
  /\ \A k \in ConnCells : Orphaned(k) ~> (k \in FreeConns \/ abort # "none")
  /\ [][\A k \in ConnCells :
          /\ Orphaned(k)
          /\ socket_destroy_event(k) \/ timer_destroy_event(k)
          => /\ abort' = "none"
             /\ con'[k].freeflag = 0 <=> connectionFreeList' = k
             /\ con'[k].freeflag # 0 => con_verify(State, k)']_vars

\* a Connection without owner waits for its socket and its timer deletion
C23_Witness ==
  \E k \in ConnCells :
    /\ Orphaned(k) /\ abort = "none"
    /\ con[k].sockdel /\ con[k].timerdel
    /\ k \notin FreeConns

WellLinked(s) ==
  \A q \in {DList(s)} :
    /\ Range(q) = s.live /\ Len(q) = Cardinality(s.live)
    /\ s.head = IF q = <<>> THEN NULL ELSE q[1]
    /\ \A i \in 1..Len(q) :
         /\ s.dlink[q[i]].prev = IF i = 1 THEN NULL ELSE q[i - 1]
         /\ s.dlink[q[i]].next = IF i = Len(q) THEN NULL ELSE q[i + 1]

\* C25: add_dlink puts a new node holding cp at the head of the list (*lpp
\* is the new node, its prev is NULL, the old head's prev is the new node);
\* remove_dlink of any node of the list, head, middle or tail, takes out
\* that node only and leaves prev and next of the others consistent;
\* add_dlink followed by remove_dlink of the node it returned gives back
\* the list with its nodes, their values and their order.
C25_DLinkAddRemove ==
  /\ [](/\ WellLinked(DLinkState)
        /\ \A lp \in DLinkCells \ dlinkLive, cp \in DLinkValues :
             \A s2 \in {remove_dlink(add_dlink(DLinkState, lp, cp), lp)} :
               /\ DList(s2) = DList(DLinkState)
               /\ s2.head = dlinkHead /\ s2.live = dlinkLive
               /\ \A c \in dlinkLive : s2.dlink[c] = dlink[c])
  /\ [][\A old \in {DList(DLinkState)}, new \in {DList(DLinkState)'} :
          /\ \A lp \in DLinkCells, cp \in DLinkValues :
               add_dlink_call(lp, cp) =>
                 /\ new = <<lp>> \o old
                 /\ dlinkHead' = lp
                 /\ dlink'[lp] = [value |-> cp, prev |-> NULL, next |-> dlinkHead]
                 /\ dlinkHead # NULL => dlink'[dlinkHead].prev = lp
                 /\ \A c \in Range(old) : dlink'[c].value = dlink[c].value
          /\ \A lp \in DLinkCells :
               remove_dlink_call(lp) =>
                 /\ new = Without(old, lp)
                 /\ \A c \in Range(new) : dlink'[c].value = dlink[c].value]_vars

\* a middle node has been taken out: its bytes still name the two nodes
\* that are now neighbours on the list
C25_Witness ==
  \E x \in DLinkCells \ dlinkLive, a, b \in dlinkLive :
    /\ dlink[x].prev = a /\ dlink[x].next = b
    /\ dlink[a].next = b /\ dlink[b].prev = a
    /\ dlink[a].value # dlink[b].value

=============================================================================
